---- MODULE Spec2Model ----
(***************************************************************************)
(* Session-transport registry of the Supabase MCP SSE server               *)
(* (run_supabase_mcp_server.js and its two entry-point variants).          *)
(*                                                                         *)
(* One Node.js process, single-threaded and event driven: every action     *)
(* below is one run-to-completion step of a handler, from its start (or    *)
(* from the settling of the promise it awaits) to its next await.          *)
(*                                                                         *)
(* Requests are the ones dispatched to the two route handlers.  Session    *)
(* identifiers are the strings the transport generates; the string of the  *)
(* transport made for GET request r is written r, the empty string 0.      *)
(***************************************************************************)
EXTENDS Integers, FiniteSets

\* Bounds of the model: GET stream requests, POST message requests and
\* termination signals that one behaviour contains.
MaxConn == 2
MaxPost == 1
MaxSignals == 2

Conns == 1..MaxConn
Posts == 1..MaxPost
Runs == 1..MaxSignals

VARIABLES
    mcpServer,            \* TRUE: the protocol server object exists; FALSE: null
    mcpServerHasClose,    \* mcpServer.close is defined
    isRunDirectly,        \* the script starts its own listener and signal handlers
    httpServer,           \* "none" | "listening" | "closing"
    exitCode,             \* {} while the process lives, {0} or {1} after process.exit
    activeSseTransports,  \* the Map: session id -> transport handle
    get,                  \* per GET request: the handler's position, req and res
    post,                 \* per POST request: the handler's position, req and res
    transportClose,       \* per handle and caller: close() calls issued / still pending
    shutdown,             \* per gracefulShutdown invocation: its position
    mcpCloseCalls,        \* mcpServer.close() invocations
    httpCloseCalls,       \* httpServer.close(cb) invocations (exit-0 callbacks registered)
    watchdogs,            \* setTimeout(..., 10000) timers armed
    unhandled,            \* errors that escaped every handler
    logged                \* whose failed close console.error has reported

vars == <<mcpServer, mcpServerHasClose, isRunDirectly, httpServer, exitCode,
          activeSseTransports, get, post, transportClose, shutdown,
          mcpCloseCalls, httpCloseCalls, watchdogs, unhandled, logged>>

\* ---------------------------------------------------------------- values

\* transport.sessionId of a handle whose constructor produced none.
NoSessionId == 0

\* The empty Map.
EmptyMap == [s \in {} |-> 0]

\* req.query.sessionId: absent, a non-string (repeated parameter: an array),
\* or a string: "" (0), an issued id, or an id no transport ever had.
QueryValues ==
    {[type |-> "undefined", value |-> 0], [type |-> "object", value |-> 1]}
        \cup {[type |-> "string", value |-> v] : v \in 0..(MaxConn + 1)}

NewGet == [pc |-> "new", transport |-> FALSE, sessionId |-> NoSessionId,
           sent |-> 0, status |-> 0, caught |-> FALSE, hook |-> FALSE,
           connects |-> 0, closed |-> FALSE]

NewPost == [pc |-> "new", query |-> [type |-> "undefined", value |-> 0],
            lookups |-> 0, transport |-> 0, calls |-> 0, sent |-> 0, status |-> 0,
            caught |-> FALSE]

NoClose == [hook |-> [calls |-> 0, pending |-> 0],
            shutdown |-> [calls |-> 0, pending |-> 0]]

\* ---------------------------------------------------------------- helpers

\* process.exit has not been called.
Alive == exitCode = {}

\* Requests reach the route handlers: through the platform when the module is
\* imported, through the local listener once app.listen has run and until
\* httpServer.close stops it accepting connections.
Serving == Alive /\ (isRunDirectly => httpServer = "listening")

\* res.headersSent
HeadersSent(res) == res.sent > 0

\* res.status(code).send(...): one more response on this request; the first
\* one is the one the client sees.
Send(res, code) ==
    [res EXCEPT !.sent = @ + 1, !.status = IF res.sent = 0 THEN code ELSE @]

\* Faulty variant: the error path answers without looking at res.headersSent.
SendUnguarded(res, code) == Send(res, code)

\* if (!res.headersSent) res.status(code).send(...)
SendIfUnsent(res, code) == IF ~HeadersSent(res) THEN Send(res, code) ELSE res

\* Map.prototype.set
MapSet(m, k, v) == [x \in DOMAIN m \cup {k} |-> IF x = k THEN v ELSE m[x]]

\* Map.prototype.delete
MapDelete(m, k) == [x \in DOMAIN m \ {k} |-> m[x]]

\* Map.prototype.get: the handle, or 0 for undefined.
MapGet(m, k) == IF k \in DOMAIN m THEN m[k] ELSE 0

\* The handles a Map holds.
MapValues(m) == {m[k] : k \in DOMAIN m}

\* transport.close() called by `who` on every handle of hs: one more call and
\* one more pending promise each.
CloseCalled(tc, hs, who) ==
    [h \in Conns |->
        IF h \in hs
        THEN [tc[h] EXCEPT ![who].calls = @ + 1, ![who].pending = @ + 1]
        ELSE tc[h]]

\* Faulty variant: only an absent parameter is refused, the typeof test is lost.
InvalidSessionIdNoTypeof(q) == q.type = "undefined"

\* !sessionId || typeof sessionId !== 'string'
InvalidSessionId(q) == q.type # "string" \/ q.value = 0

\* ---------------------------------------------------------------- startup

Init ==
    /\ mcpServer \in BOOLEAN
    /\ mcpServerHasClose \in BOOLEAN
    /\ mcpServer = FALSE => mcpServerHasClose = FALSE
    /\ isRunDirectly \in BOOLEAN
    /\ httpServer = "none"
    /\ exitCode = {}
    /\ activeSseTransports = EmptyMap
    /\ get = [r \in Conns |-> NewGet]
    /\ post = [p \in Posts |-> NewPost]
    /\ transportClose = [h \in Conns |-> NoClose]
    /\ shutdown = [i \in Runs |-> "idle"]
    /\ mcpCloseCalls = 0
    /\ httpCloseCalls = 0
    /\ watchdogs = 0
    /\ unhandled = 0
    /\ logged = {}

\* startLocalDevelopmentServer / startServer: exit(1) without a protocol
\* server, else listen and install the signal handlers.
startLocalDevelopmentServer ==
    /\ Alive
    /\ isRunDirectly
    /\ httpServer = "none"
    /\ IF ~mcpServer
       THEN /\ exitCode' = {1}
            /\ UNCHANGED httpServer
       ELSE /\ httpServer' = "listening"
            /\ UNCHANGED exitCode
    /\ UNCHANGED <<mcpServer, mcpServerHasClose, isRunDirectly, activeSseTransports,
                   get, post, transportClose, shutdown, mcpCloseCalls,
                   httpCloseCalls, watchdogs, unhandled, logged>>

\* ---------------------------------------------------------------- GET <sse-path>

\* Faulty variant: the null check of mcpServer is missing.
NotInitializedUnchecked == FALSE

\* Faulty variant: the endpoints also refuse once a shutdown has started.
NotInitializedOrShuttingDown == ~mcpServer \/ \E i \in Runs : shutdown[i] # "idle"

\* if (!mcpServer): the endpoint fails fast.
NotInitialized == ~mcpServer

\* transport.sessionId of a new SSEServerTransport: its generated id, or none.
SessionIds(r) == {r, NoSessionId}

\* Faulty variant: the test of the session id is missing.
MissingSessionIdUnchecked(sid) == FALSE

\* if (!sessionId)
MissingSessionId(sid) == sid = NoSessionId

\* Faulty variant: the hook is not installed before the await.
InstallHookDeferred(req) == req

\* req.on('close', ...): the disconnect hook is installed on the request.
InstallHook(req) == [req EXCEPT !.hook = TRUE]

\* Faulty variant: the handle is never stored.
RegisterDropped(m, sid, transport) == m

\* activeSseTransports.set(sessionId, transport)
Register(m, sid, transport) == MapSet(m, sid, transport)

\* app.get(serverSsePath, ...) up to its await: 503 without a protocol server;
\* else make the transport, answer 500 if it has no session id, else register
\* it, install the req 'close' hook and call mcpServer.connect.
SseGet(r) ==
    /\ Serving
    /\ get[r].pc = "new"
    /\ \A q \in Conns : q < r => get[q].pc # "new"
    /\ IF NotInitialized
       THEN /\ get' = [get EXCEPT ![r] = [Send(@, 503) EXCEPT !.pc = "done"]]
            /\ UNCHANGED activeSseTransports
       ELSE \E sid \in SessionIds(r) :
            IF MissingSessionId(sid)
            THEN /\ get' = [get EXCEPT ![r] =
                              [SendIfUnsent(@, 500) EXCEPT !.pc = "done",
                                                           !.transport = TRUE]]
                 /\ UNCHANGED activeSseTransports
            ELSE /\ activeSseTransports' = Register(activeSseTransports, sid, r)
                 /\ get' = [get EXCEPT ![r] =
                              [InstallHook(@) EXCEPT !.pc = "connecting",
                                                     !.transport = TRUE,
                                                     !.sessionId = sid,
                                                     !.connects = @ + 1]]
    /\ UNCHANGED <<mcpServer, mcpServerHasClose, isRunDirectly, httpServer, exitCode,
                   post, transportClose, shutdown, mcpCloseCalls, httpCloseCalls,
                   watchdogs, unhandled, logged>>

\* How `await mcpServer.connect(transport)` ends: the stream is started (the
\* transport writes the 200 head) and the promise resolves; it rejects before
\* the head is written; it rejects after.
ConnectOutcomes == {"connected", "failed", "failedAfterStart"}

\* Faulty variant: the catch logs the error and answers nothing.
SetupFailedSilent(res) == [res EXCEPT !.caught = TRUE]

\* catch (error) of the GET handler: log, then answer 500 unless headers are sent.
SetupFailed(res) == [SendIfUnsent(res, 500) EXCEPT !.caught = TRUE]

\* The rest of the GET handler, once mcpServer.connect has settled.
ConnectSettled(r, outcome) ==
    /\ Alive
    /\ get[r].pc = "connecting"
    /\ LET started == IF outcome = "failed" THEN get[r] ELSE Send(get[r], 200)
           res == IF outcome = "connected" THEN started ELSE SetupFailed(started)
       IN get' = [get EXCEPT ![r] = [res EXCEPT !.pc = "done"]]
    /\ UNCHANGED <<mcpServer, mcpServerHasClose, isRunDirectly, httpServer, exitCode,
                   activeSseTransports, post, transportClose, shutdown,
                   mcpCloseCalls, httpCloseCalls, watchdogs, unhandled, logged>>

\* Faulty variant: the hook closes the handle but leaves its entry.
DeregisterSkipped(m, sid) == m

\* Faulty variant: the hook empties the registry.
DeregisterAll(m, sid) == EmptyMap

\* activeSseTransports.delete(sessionId) of the req 'close' hook.
Deregister(m, sid) == MapDelete(m, sid)

\* The connection of GET request r closes; the hook, if installed, removes the
\* session id and calls transport.close().
Disconnect(r) ==
    /\ Alive
    /\ get[r].pc # "new"
    /\ ~get[r].closed
    /\ get' = [get EXCEPT ![r].closed = TRUE]
    /\ IF get[r].hook
       THEN /\ activeSseTransports' = Deregister(activeSseTransports, get[r].sessionId)
            /\ transportClose' = CloseCalled(transportClose, {r}, "hook")
       ELSE UNCHANGED <<activeSseTransports, transportClose>>
    /\ UNCHANGED <<mcpServer, mcpServerHasClose, isRunDirectly, httpServer, exitCode,
                   post, shutdown, mcpCloseCalls, httpCloseCalls, watchdogs,
                   unhandled, logged>>

\* Faulty variant: the hook's close() has no .catch, a rejection is unhandled.
HookCloseUncaught(u) == u + 1

\* .catch(err => console.error(...)) on the hook's close: logged, not rethrown.
HookCloseRejected(u) == u

\* Faulty variant: the drain awaits close() outside any try, a rejection escapes.
DrainCloseUncaught(u) == u + 1

\* try { await transport.close(); } catch (e) { console.error(...) } of the drain.
DrainCloseRejected(u) == u

\* console.error of a caller's catch: the caller is on record.
Logged(l, who) == l \cup {who}

\* A transport.close() promise settles, resolved or rejected.
CloseSettled(h, who, outcome) ==
    /\ Alive
    /\ transportClose[h][who].pending > 0
    /\ transportClose' = [transportClose EXCEPT ![h][who].pending = @ - 1]
    /\ unhandled' = IF outcome = "resolved" THEN unhandled
                    ELSE IF who = "hook" THEN HookCloseRejected(unhandled)
                    ELSE DrainCloseRejected(unhandled)
    /\ logged' = IF outcome = "resolved" THEN logged ELSE Logged(logged, who)
    /\ UNCHANGED <<mcpServer, mcpServerHasClose, isRunDirectly, httpServer, exitCode,
                   activeSseTransports, get, post, shutdown, mcpCloseCalls,
                   httpCloseCalls, watchdogs>>

\* ---------------------------------------------------------------- POST <messages-path>

\* Faulty variant: a handle is produced for an id the Map does not hold.
LookupStale(m, sid) == sid

\* activeSseTransports.get(sessionId)
Lookup(m, sid) == MapGet(m, sid)

\* Faulty variant: the sessionId is validated before mcpServer is tested.
EarlyStatusValidationFirst(q) ==
    IF InvalidSessionId(q) THEN 400
    ELSE IF NotInitialized THEN 503
    ELSE 0

\* The status the handler answers before any lookup, 0 if none: 503 without a
\* protocol server, then 400 for a missing or non-string sessionId.
EarlyStatus(q) ==
    IF NotInitialized THEN 503
    ELSE IF InvalidSessionId(q) THEN 400
    ELSE 0

\* else-branch of `if (transport)`.
NotFound(res) == Send(res, 404)

\* app.post(serverMessagesPath, ...) up to its await.
MessagePost(p, q) ==
    /\ Serving
    /\ post[p].pc = "new"
    /\ \A o \in Posts : o < p => post[o].pc # "new"
    /\ LET req == [post[p] EXCEPT !.query = q]
       IN IF EarlyStatus(q) # 0
          THEN post' = [post EXCEPT ![p] =
                          [Send(req, EarlyStatus(q)) EXCEPT !.pc = "done"]]
          ELSE LET transport == Lookup(activeSseTransports, q.value)
                   found == [req EXCEPT !.lookups = @ + 1, !.transport = transport]
               IN IF transport # 0
                  THEN post' = [post EXCEPT ![p] =
                                  [found EXCEPT !.calls = @ + 1, !.pc = "handling"]]
                  ELSE post' = [post EXCEPT ![p] =
                                  [NotFound(found) EXCEPT !.pc = "done"]]
    /\ UNCHANGED <<mcpServer, mcpServerHasClose, isRunDirectly, httpServer, exitCode,
                   activeSseTransports, get, transportClose, shutdown,
                   mcpCloseCalls, httpCloseCalls, watchdogs, unhandled, logged>>

\* How `await transport.handlePostMessage(req, res, req.body)` ends: the handle
\* writes the response (202 Accepted) and resolves; it writes a 500 and throws
\* (stream not established); it throws without writing.
PostOutcomes == {"accepted", "respondedAndThrew", "threw"}

\* catch (error) of the POST handler: log, then answer 500 unless headers are sent.
MessageFailed(res) == [SendIfUnsent(res, 500) EXCEPT !.caught = TRUE]

\* The rest of the POST handler, once handlePostMessage has settled.
PostSettled(p, outcome) ==
    /\ Alive
    /\ post[p].pc = "handling"
    /\ LET res == IF outcome = "accepted" THEN Send(post[p], 202)
                  ELSE IF outcome = "respondedAndThrew"
                       THEN MessageFailed(Send(post[p], 500))
                  ELSE MessageFailed(post[p])
       IN post' = [post EXCEPT ![p] = [res EXCEPT !.pc = "done"]]
    /\ UNCHANGED <<mcpServer, mcpServerHasClose, isRunDirectly, httpServer, exitCode,
                   activeSseTransports, get, transportClose, shutdown,
                   mcpCloseCalls, httpCloseCalls, watchdogs, unhandled, logged>>

\* ---------------------------------------------------------------- shutdown

\* Faulty variant: the registry is cleared before the loop, which closes nothing.
DrainedAfterClear(m) == {}

\* The handles activeSseTransports.forEach visits: transport.close() is called
\* on each inside the loop, before the callback's await suspends it.
Drained(m) == MapValues(m)

\* Faulty variant: the registry is not cleared after the loop.
ClearedNot(m) == m

\* activeSseTransports.clear()
Cleared(m) == EmptyMap

\* Faulty variant: the protocol server is never closed.
ClosesMcpServerSkipped == FALSE

\* if (mcpServer && mcpServer.close)
ClosesMcpServer == mcpServer /\ mcpServerHasClose

\* gracefulShutdown, the handler of SIGINT and SIGTERM, up to its await: close
\* every registered handle, clear the registry, then call mcpServer.close();
\* without that method it goes straight on to httpServer.close and setTimeout.
gracefulShutdown(i) ==
    /\ Alive
    /\ httpServer # "none"
    /\ shutdown[i] = "idle"
    /\ \A j \in Runs : j < i => shutdown[j] # "idle"
    /\ transportClose' = CloseCalled(transportClose, Drained(activeSseTransports),
                                     "shutdown")
    /\ activeSseTransports' = Cleared(activeSseTransports)
    /\ IF ClosesMcpServer
       THEN /\ mcpCloseCalls' = mcpCloseCalls + 1
            /\ shutdown' = [shutdown EXCEPT ![i] = "awaitMcpClose"]
            /\ UNCHANGED <<httpServer, httpCloseCalls, watchdogs>>
       ELSE /\ httpServer' = "closing"
            /\ httpCloseCalls' = httpCloseCalls + 1
            /\ watchdogs' = watchdogs + 1
            /\ shutdown' = [shutdown EXCEPT ![i] = "closing"]
            /\ UNCHANGED mcpCloseCalls
    /\ UNCHANGED <<mcpServer, mcpServerHasClose, isRunDirectly, exitCode, get, post,
                   unhandled, logged>>

\* Faulty variant: mcpServer.close() is awaited outside any try.
McpCloseUncaught == FALSE

\* try { await mcpServer.close(); ... } catch (e) { console.error(...) }
McpCloseCaught == TRUE

\* The rest of gracefulShutdown once mcpServer.close() has settled: a rejection
\* is caught and logged, and either way httpServer.close(cb) and the 10 s
\* timer follow; a rejection nothing catches would end the handler there.
McpCloseSettled(i, outcome) ==
    /\ Alive
    /\ shutdown[i] = "awaitMcpClose"
    /\ outcome \in {"resolved", "rejected"}
    /\ IF outcome = "resolved" \/ McpCloseCaught
       THEN /\ httpServer' = "closing"
            /\ httpCloseCalls' = httpCloseCalls + 1
            /\ watchdogs' = watchdogs + 1
            /\ shutdown' = [shutdown EXCEPT ![i] = "closing"]
            /\ logged' = IF outcome = "resolved" THEN logged
                         ELSE Logged(logged, "mcpServer")
            /\ UNCHANGED unhandled
       ELSE /\ shutdown' = [shutdown EXCEPT ![i] = "aborted"]
            /\ unhandled' = unhandled + 1
            /\ UNCHANGED <<httpServer, httpCloseCalls, watchdogs, logged>>
    /\ UNCHANGED <<mcpServer, mcpServerHasClose, isRunDirectly, exitCode,
                   activeSseTransports, get, post, transportClose, mcpCloseCalls>>

\* Every connection the listener accepted has ended.
ConnectionsEnded ==
    /\ \A r \in Conns : get[r].pc # "new" => get[r].closed
    /\ \A p \in Posts : post[p].pc # "handling"

\* The callback of httpServer.close: process.exit(0).
HttpServerClosed ==
    /\ Alive
    /\ httpCloseCalls > 0
    /\ ConnectionsEnded
    /\ exitCode' = {0}
    /\ UNCHANGED <<mcpServer, mcpServerHasClose, isRunDirectly, httpServer,
                   activeSseTransports, get, post, transportClose, shutdown,
                   mcpCloseCalls, httpCloseCalls, watchdogs, unhandled, logged>>

\* Faulty variant: the timer is armed when the module loads.
WatchdogArmedAtLoad == TRUE

\* A timer set by gracefulShutdown exists.
WatchdogArmed == watchdogs > 0

\* The callback of setTimeout(..., 10000): process.exit(1).
WatchdogFired ==
    /\ Alive
    /\ WatchdogArmed
    /\ exitCode' = {1}
    /\ UNCHANGED <<mcpServer, mcpServerHasClose, isRunDirectly, httpServer,
                   activeSseTransports, get, post, transportClose, shutdown,
                   mcpCloseCalls, httpCloseCalls, watchdogs, unhandled, logged>>

\* The process state of the lifecycle coordinator; a script run directly is
\* Starting until app.listen has run and the signal handlers are installed.
ProcessState ==
    IF ~Alive THEN "Terminated"
    ELSE IF \E i \in Runs : shutdown[i] # "idle" THEN "ShuttingDown"
    ELSE IF isRunDirectly /\ httpServer = "none" THEN "Starting"
    ELSE "Running"

\* ---------------------------------------------------------------- specification

Next ==
    \/ startLocalDevelopmentServer
    \/ \E r \in Conns : SseGet(r)
    \/ \E r \in Conns, o \in ConnectOutcomes : ConnectSettled(r, o)
    \/ \E r \in Conns : Disconnect(r)
    \/ \E h \in Conns, who \in {"hook", "shutdown"}, o \in {"resolved", "rejected"} :
          CloseSettled(h, who, o)
    \/ \E p \in Posts, q \in QueryValues : MessagePost(p, q)
    \/ \E p \in Posts, o \in PostOutcomes : PostSettled(p, o)
    \/ \E i \in Runs : gracefulShutdown(i)
    \/ \E i \in Runs, o \in {"resolved", "rejected"} : McpCloseSettled(i, o)
    \/ HttpServerClosed
    \/ WatchdogFired

Spec == Init /\ [][Next]_vars

\* ---------------------------------------------------------------- properties

\* No run of gracefulShutdown has started.
NoShutdownYet == \A i \in Runs : shutdown[i] = "idle"

\* The session ids of the streams that were opened and have not disconnected.
OpenSessions ==
    {get[r].sessionId :
        r \in {c \in Conns : /\ get[c].pc # "new"
                             /\ get[c].sessionId # NoSessionId
                             /\ ~get[c].closed}}

\* POST request p is being handled in this step (its handler starts).
PostStarts(p) == post[p].pc = "new" /\ post'[p].pc # "new"

\* Run i of gracefulShutdown starts in this step (a termination signal).
ShutdownStarts(i) == shutdown[i] = "idle" /\ shutdown'[i] # "idle"

\* C1: as long as only connection-open and disconnect events have happened (no
\* shutdown drain), the keys of the registry are exactly the session ids of
\* the opened and not yet disconnected connections, each mapped to the handle
\* of its connection.
C1_RegistryIsOpenSessions ==
    NoShutdownYet =>
        /\ DOMAIN activeSseTransports = OpenSessions
        /\ \A s \in DOMAIN activeSseTransports :
              get[activeSseTransports[s]].sessionId = s

\* C1 witness: one stream is open and registered while another one has
\* disconnected and is gone from the registry.
C1_Witness ==
    /\ NoShutdownYet
    /\ \E a, b \in Conns :
          /\ a \in DOMAIN activeSseTransports /\ ~get[a].closed
          /\ get[b].hook /\ get[b].closed /\ b \notin DOMAIN activeSseTransports

\* C2: a POST whose sessionId is a non-empty string that is no key of the
\* registry when the handler looks it up is answered 404 at once, and the
\* request calls no method of any handle: no handlePostMessage, no close.
C2_UnknownSessionIs404 ==
    [][\A p \in Posts :
          (/\ PostStarts(p)
           /\ post'[p].lookups > 0
           /\ post'[p].query.type = "string"
           /\ post'[p].query.value # 0
           /\ post'[p].query.value \notin DOMAIN activeSseTransports)
          => /\ post'[p].pc = "done"
             /\ post'[p].status = 404
             /\ post'[p].sent = 1
             /\ post'[p].calls = 0
             /\ transportClose' = transportClose]_vars

\* C2 witness: while a session was registered, a POST for an id that no
\* transport ever had was looked up and answered 404 without any call.
C2_Witness ==
    \E p \in Posts :
        /\ post[p].pc = "done" /\ post[p].status = 404 /\ post[p].lookups = 1
        /\ post[p].query.type = "string" /\ post[p].query.value \notin Conns
        /\ post[p].calls = 0
        /\ activeSseTransports # EmptyMap

\* C3 as stated: every POST whose sessionId is missing or no string is
\* answered 400, before any registry lookup, in every server state.
C3_Original ==
    \A p \in Posts :
        (post[p].pc # "new" /\ post[p].query.type # "string")
        => post[p].status = 400 /\ post[p].lookups = 0

\* C3 amended: every POST whose sessionId is missing, empty or no string is
\* answered, before any registry lookup, with 400 when the protocol server
\* exists and with 503 when it does not.
C3_InvalidSessionIs400 ==
    \A p \in Posts :
        (post[p].pc # "new" /\ (post[p].query.type # "string" \/ post[p].query.value = 0))
        => /\ post[p].pc = "done"
           /\ post[p].sent = 1
           /\ post[p].lookups = 0
           /\ post[p].calls = 0
           /\ post[p].status = IF mcpServer THEN 400 ELSE 503

\* C3 witness: a POST with a non-string sessionId was answered 400 while a
\* session was registered.
C3_Witness ==
    \E p \in Posts :
        /\ post[p].pc = "done" /\ post[p].query.type = "object"
        /\ post[p].status = 400
        /\ activeSseTransports # EmptyMap

C5_UninitializedGetIs503 ==
    ~mcpServer =>
        /\ activeSseTransports = EmptyMap
        /\ transportClose = [h \in Conns |-> NoClose]
        /\ \A r \in Conns :
              get[r].pc # "new"
              => /\ get[r].pc = "done"
                 /\ get[r].status = 503
                 /\ get[r].sent = 1
                 /\ ~get[r].transport
                 /\ ~get[r].hook

\* C5 witness: two GETs were answered 503 and one connection has closed.
C5_Witness ==
    /\ ~mcpServer
    /\ \A r \in Conns : get[r].status = 503
    /\ \E r \in Conns : get[r].closed

\* C6: the step that starts a shutdown issues exactly one close on every handle
\* the registry holds at that moment (its only close so far) and none on any
\* other handle, and leaves the registry empty; the coordinator never issues
\* a second close on a handle, whatever close settles or rejects and whatever
\* disconnects come before or after.
C6_DrainClosesEachOnce ==
    /\ [](\A h \in Conns : transportClose[h].shutdown.calls <= 1)
    /\ [][\A i \in Runs :
             ShutdownStarts(i)
             => /\ activeSseTransports' = EmptyMap
                /\ \A h \in Conns :
                      IF h \in MapValues(activeSseTransports)
                      THEN /\ transportClose[h].shutdown.calls = 0
                           /\ transportClose[h].hook.calls = 0
                           /\ transportClose'[h].shutdown.calls = 1
                           /\ transportClose'[h].hook.calls = 0
                      ELSE transportClose'[h] = transportClose[h]]_vars

\* C6 witness: shutdown drained two handles; one close has settled, the other
\* is pending, one of the connections has disconnected since, and the
\* registry is empty.
C6_Witness ==
    /\ activeSseTransports = EmptyMap
    /\ \A h \in Conns : transportClose[h].shutdown.calls = 1
    /\ \E h \in Conns : transportClose[h].shutdown.pending = 0
    /\ \E h \in Conns : transportClose[h].shutdown.pending = 1
    /\ \E h \in Conns : get[h].closed

\* C7 as stated: once a termination signal has started shutdown, the process
\* eventually terminates, whatever step is still in flight.
C7_ShutdownTerminates ==
    (ProcessState = "ShuttingDown") ~> (ProcessState = "Terminated")

\* C8: a handle is closed at most once by its hook and at most once by the
\* coordinator, and never by the coordinator after its hook; when the hook
\* runs on a handle the coordinator has closed, the registry is left as it is
\* (the removal is a no-op, no other entry goes) and only that handle gets a
\* close; no rejection of any close escapes its caller.
C8_DoubleCloseIsHarmless ==
    /\ [](unhandled = 0)
    /\ [](\A h \in Conns : /\ transportClose[h].hook.calls <= 1
                           /\ transportClose[h].shutdown.calls <= 1)
    /\ [][\A h \in Conns :
             /\ (/\ ~get[h].closed /\ get'[h].closed
                 /\ transportClose[h].shutdown.calls > 0)
                => /\ activeSseTransports' = activeSseTransports
                   /\ transportClose' = CloseCalled(transportClose, {h}, "hook")
             /\ (get[h].hook /\ get[h].closed)
                => transportClose'[h].shutdown.calls = transportClose[h].shutdown.calls]_vars

\* C8 witness: a handle was closed by the coordinator and then by its hook,
\* both closes have settled, and a session registered after the drain is
\* still in the registry.
C8_Witness ==
    \E h \in Conns :
        /\ transportClose[h].shutdown = [calls |-> 1, pending |-> 0]
        /\ transportClose[h].hook = [calls |-> 1, pending |-> 0]
        /\ activeSseTransports # EmptyMap

\* C9: no GET and no POST request ever has more than one response sent.
C9_AtMostOneResponse ==
    /\ \A r \in Conns : get[r].sent <= 1
    /\ \A p \in Posts : post[p].sent <= 1

\* C9 witness: a stream bind failed after the 200 head was written, and a
\* message call threw after the handle had answered 500.
C9_Witness ==
    /\ \E r \in Conns : get[r].caught /\ get[r].status = 200 /\ get[r].sent = 1
    /\ \E p \in Posts : post[p].caught /\ post[p].calls = 1 /\ post[p].sent = 1

\* C10 as stated: a termination signal that arrives while the process is
\* ShuttingDown closes no transport, and the whole shutdown calls
\* mcpServer.close, httpServer.close and setTimeout at most once.
C10_SecondSignalNoEffect ==
    /\ [](mcpCloseCalls <= 1 /\ httpCloseCalls <= 1 /\ watchdogs <= 1)
    /\ [][\A i \in Runs :
             (ShutdownStarts(i) /\ ProcessState = "ShuttingDown")
             => transportClose' = transportClose]_vars

\* What the runtime guarantees to run: an armed timer fires while the process
\* lives.  Nothing obliges a collaborator's promise to settle or a client to
\* disconnect.
FairSpec == Spec /\ WF_vars(WatchdogFired)

\* C11: the process state only moves Running -> ShuttingDown -> Terminated:
\* ShuttingDown is entered by the first termination signal, Terminated is
\* entered from ShuttingDown by the listener's close callback (exit 0) or by
\* the watchdog (exit 1), and no step leads back to Running.
C11_ProcessStateOrder ==
    [][/\ ProcessState = "Running" => ProcessState' \in {"Running", "ShuttingDown"}
       /\ ProcessState = "ShuttingDown"
          => ProcessState' \in {"ShuttingDown", "Terminated"}
       /\ ProcessState = "Terminated" => ProcessState' = "Terminated"
       /\ (ProcessState = "Running" /\ ProcessState' = "ShuttingDown")
          => ShutdownStarts(1)
       /\ (ProcessState = "ShuttingDown" /\ ProcessState' = "Terminated")
          => \/ exitCode' = {0} /\ httpCloseCalls > 0 /\ ConnectionsEnded
             \/ exitCode' = {1} /\ watchdogs > 0]_vars

\* C11 witness: after a second signal, which left the state ShuttingDown, the
\* watchdog has terminated the process.
C11_Witness ==
    /\ ProcessState = "Terminated"
    /\ exitCode = {1}
    /\ \A i \in Runs : shutdown[i] # "idle"

\* C12: without a protocol server every request that is served is answered
\* 503: every POST, whatever its sessionId parameter and before any lookup,
\* and every GET.
C12_UninitializedIs503 ==
    ~mcpServer =>
        /\ \A p \in Posts :
              post[p].pc # "new"
              => /\ post[p].pc = "done"
                 /\ post[p].status = 503
                 /\ post[p].sent = 1
                 /\ post[p].lookups = 0
                 /\ post[p].calls = 0
        /\ \A r \in Conns :
              get[r].pc # "new"
              => get[r].pc = "done" /\ get[r].status = 503 /\ get[r].sent = 1

\* C12 witness: without a protocol server a POST with no sessionId and a GET
\* were both answered 503.
C12_Witness ==
    /\ ~mcpServer
    /\ \E p \in Posts :
          /\ post[p].pc = "done" /\ post[p].status = 503
          /\ post[p].query.type = "undefined"
    /\ \E r \in Conns : get[r].pc = "done" /\ get[r].status = 503

\* C13: the process exits with status 0 only from the close callback of the
\* listening socket, and the steps of a shutdown run come in this order: close
\* is issued on every registered handle and the registry is cleared while
\* those closes are still pending; then, when the protocol server has a close
\* method, it is called and the run waits for it; only a run that has got
\* past that requests the close of the listening socket; and status 0 comes
\* only after such a request, once the socket's connections have ended.
C13_GracefulOrder ==
    /\ [](exitCode = {0}
          => /\ httpCloseCalls > 0
             /\ \E i \in Runs : shutdown[i] = "closing")
    /\ [][/\ \A i \in Runs :
               ShutdownStarts(i)
               => /\ \A h \in MapValues(activeSseTransports) :
                        /\ transportClose'[h].shutdown.calls
                              = transportClose[h].shutdown.calls + 1
                        /\ transportClose'[h].shutdown.pending
                              = transportClose[h].shutdown.pending + 1
                  /\ activeSseTransports' = EmptyMap
                  /\ IF mcpServer /\ mcpServerHasClose
                     THEN /\ mcpCloseCalls' = mcpCloseCalls + 1
                          /\ shutdown'[i] = "awaitMcpClose"
                          /\ httpCloseCalls' = httpCloseCalls
                     ELSE mcpCloseCalls' = mcpCloseCalls
          /\ httpCloseCalls' # httpCloseCalls
             => /\ httpCloseCalls' = httpCloseCalls + 1
                /\ \E i \in Runs :
                      /\ shutdown'[i] = "closing"
                      /\ shutdown[i]
                            = IF mcpServer /\ mcpServerHasClose
                              THEN "awaitMcpClose" ELSE "idle"
          /\ (exitCode = {} /\ exitCode' = {0})
             => httpCloseCalls > 0 /\ ConnectionsEnded]_vars

\* C13 witness: the process has exited with status 0 after the protocol
\* server was closed, while a close issued by the drain is still pending.
C13_Witness ==
    /\ exitCode = {0}
    /\ mcpCloseCalls > 0
    /\ \E h \in Conns : transportClose[h].shutdown.pending > 0

\* What the runtime and the network guarantee: an armed timer fires while the
\* process lives, and every connection the server accepted ends at some time,
\* which emits its request's 'close'.  Nothing obliges a collaborator's
\* promise to settle.
LiveSpec == Spec /\ WF_vars(WatchdogFired) /\ \A r \in Conns : WF_vars(Disconnect(r))

CloseCalls(h) == transportClose[h].hook.calls + transportClose[h].shutdown.calls

\* C15: every created transport handle is eventually out of the registry and
\* closed. Stated on the handle's final state: once its connection has closed
\* and its GET handler has returned, nothing in the program refers to an
\* unregistered handle any more, so by then it is unregistered and close() has
\* been called on it.
C15_CreatedIsClosed ==
    \A h \in Conns :
        (get[h].transport /\ get[h].closed /\ get[h].pc = "done")
            => (h \notin MapValues(activeSseTransports) /\ CloseCalls(h) > 0)

\* ---------------------------------------------------------------- C16

\* C16: a GET whose new transport handle has no session id is answered 500 and
\* returns before registering: in that step the registry does not change, and
\* from then on the request has no disconnect hook, mcpServer.connect was never
\* called for its handle, and the handle is in no registry entry.
C16_MissingSessionIdAborts ==
    /\ [][\A r \in Conns :
            (get[r].pc = "new" /\ get'[r].transport
                               /\ get'[r].sessionId = NoSessionId)
                => /\ activeSseTransports' = activeSseTransports
                   /\ get'[r].pc = "done"
                   /\ get'[r].sent = 1 /\ get'[r].status = 500]_vars
    /\ [](\A r \in Conns :
            (get[r].transport /\ get[r].sessionId = NoSessionId)
                => /\ ~get[r].hook
                   /\ get[r].connects = 0
                   /\ get[r].pc = "done"
                   /\ get[r].sent = 1 /\ get[r].status = 500
                   /\ r \notin MapValues(activeSseTransports)
                   /\ NoSessionId \notin DOMAIN activeSseTransports)

\* A handle without a session id was refused while another session is registered.
C16_Witness ==
    \E r, h \in Conns :
        /\ get[r].transport /\ get[r].sessionId = NoSessionId
        /\ get[r].status = 500 /\ get[r].closed
        /\ h \in MapValues(activeSseTransports)
        /\ get[h].connects = 1

\* ---------------------------------------------------------------- C17

\* C17: when mcpServer.connect throws for a registered handle, the catch leaves
\* the registry as it is and the request ends with exactly one response: the
\* 500 of the catch if no head was written, else the head the transport wrote.
\* The failed handle's entry leaves the registry only in a step where its own
\* connection closes or a shutdown starts, and until then a POST with its
\* session id is forwarded to it.
C17_SetupFailureKeepsEntry ==
    /\ [][\A r \in Conns :
            (get[r].pc = "connecting" /\ get'[r].caught)
                => /\ activeSseTransports' = activeSseTransports
                   /\ get[r].sent = 0
                   /\ get'[r].sent = 1
                   /\ get'[r].status \in {200, 500}]_vars
    /\ [][\A s \in DOMAIN activeSseTransports :
            (get[activeSseTransports[s]].caught
                /\ (s \notin DOMAIN activeSseTransports'
                      \/ activeSseTransports'[s] # activeSseTransports[s]))
                => \/ /\ ~get[activeSseTransports[s]].closed
                      /\ get'[activeSseTransports[s]].closed
                   \/ \E i \in Runs : ShutdownStarts(i)]_vars
    /\ [][\A p \in Posts, s \in DOMAIN activeSseTransports :
            (PostStarts(p) /\ post'[p].query = [type |-> "string", value |-> s]
                           /\ get[activeSseTransports[s]].caught)
                => /\ post'[p].pc = "handling"
                   /\ post'[p].transport = activeSseTransports[s]
                   /\ post'[p].calls = 1]_vars

\* A handle whose setup failed with a 500 is still registered and a POST has
\* been forwarded to it.
C17_Witness ==
    \E h \in Conns, p \in Posts :
        /\ get[h].caught /\ get[h].status = 500 /\ ~get[h].closed
        /\ MapGet(activeSseTransports, get[h].sessionId) = h
        /\ post[p].transport = h /\ post[p].calls = 1

\* ---------------------------------------------------------------- C18

\* mcpServer.connect throws for GET request r.
SetupFails(r) == get[r].pc = "connecting" /\ get'[r].caught

\* The connection of GET request r closes.
Disconnects(r) == ~get[r].closed /\ get'[r].closed

\* A close() promise of handle h settles.
CloseSettles(h) ==
    \E who \in {"hook", "shutdown"} :
        transportClose'[h][who].pending < transportClose[h][who].pending

\* handlePostMessage throws for POST request p.
PostFails(p) == post[p].pc = "handling" /\ post'[p].caught

\* C18: an event of one session leaves the other sessions alone. When a setup
\* fails, a connection closes or a close() settles for handle h, or a POST that
\* names session id s starts or fails, then every registry entry of another
\* session id is unchanged, no close() is called on another handle, and
\* handlePostMessage is called on no handle but the one registered under s.
C18_SessionEventsAreLocal ==
    /\ [][\A h \in Conns :
            (SetupFails(h) \/ Disconnects(h) \/ CloseSettles(h))
                => /\ \A s \in Conns : s # get[h].sessionId =>
                         MapGet(activeSseTransports', s) = MapGet(activeSseTransports, s)
                   /\ \A o \in Conns : o # h =>
                         /\ transportClose'[o] = transportClose[o]
                         /\ get'[o] = get[o]
                   /\ post' = post]_vars
    /\ [][\A p \in Posts :
            (PostStarts(p) \/ PostFails(p))
                => /\ activeSseTransports' = activeSseTransports
                   /\ transportClose' = transportClose
                   /\ get' = get
                   /\ \A o \in Posts : o # p => post'[o] = post[o]
                   /\ post'[p].calls > post[p].calls =>
                         /\ post'[p].query.type = "string"
                         /\ post'[p].transport =
                               MapGet(activeSseTransports, post'[p].query.value)
                         /\ get[post'[p].transport].sessionId = post'[p].query.value]_vars

\* One session's setup failed and its connection was closed by its client,
\* while another session is still registered and nothing has closed its handle.
C18_Witness ==
    \E h, o \in Conns :
        /\ h # o
        /\ get[h].caught /\ get[h].closed
        /\ transportClose[h].hook.calls = 1
        /\ MapGet(activeSseTransports, get[o].sessionId) = o
        /\ get[o].sessionId # NoSessionId
        /\ CloseCalls(o) = 0
        /\ \E p \in Posts : post[p].caught /\ post[p].transport = h

\* ---------------------------------------------------------------- C19

\* C19: no failure of a shutdown step stops the later steps. The run of
\* gracefulShutdown calls close() on every registered handle, clears the
\* registry and calls mcpServer.close() (when it has one) before any of those
\* close() promises can settle; a close() that settles afterwards, rejected or
\* not, changes no run's position and is never an unhandled rejection; and a
\* run that waits for mcpServer.close() always goes on, whether that resolves
\* or rejects, to request httpServer.close and arm the timer.
C19_ShutdownStepsIndependent ==
    /\ [][\A i \in Runs :
            ShutdownStarts(i)
                => /\ \A h \in MapValues(activeSseTransports) :
                         /\ transportClose'[h].shutdown.calls
                               = transportClose[h].shutdown.calls + 1
                         /\ transportClose'[h].shutdown.pending
                               = transportClose[h].shutdown.pending + 1
                   /\ activeSseTransports' = EmptyMap
                   /\ (mcpServer /\ mcpServerHasClose)
                         => mcpCloseCalls' = mcpCloseCalls + 1]_vars
    /\ [][\A h \in Conns :
            transportClose'[h].shutdown.pending < transportClose[h].shutdown.pending
                => /\ shutdown' = shutdown
                   /\ activeSseTransports' = activeSseTransports
                   /\ \A o \in Conns : o # h => transportClose'[o] = transportClose[o]
                   /\ <<mcpCloseCalls', httpCloseCalls', watchdogs'>>
                         = <<mcpCloseCalls, httpCloseCalls, watchdogs>>]_vars
    /\ [][\A i \in Runs :
            (shutdown[i] = "awaitMcpClose" /\ shutdown'[i] # "awaitMcpClose")
                => /\ shutdown'[i] = "closing"
                   /\ httpServer' = "closing"
                   /\ httpCloseCalls' = httpCloseCalls + 1
                   /\ watchdogs' = watchdogs + 1]_vars
    /\ [](unhandled = 0)

\* A drain closed both handles, a close() of the drain was rejected and so was
\* mcpServer.close(), and httpServer.close has been requested all the same.
C19_Witness ==
    /\ \A h \in Conns : transportClose[h].shutdown.calls = 1
    /\ {"shutdown", "mcpServer"} \subseteq logged
    /\ mcpCloseCalls = 1
    /\ httpCloseCalls = 1 /\ watchdogs = 1
    /\ activeSseTransports = EmptyMap
    /\ Alive

\* ---------------------------------------------------------------- C20

\* The runs of gracefulShutdown that are past `await mcpServer.close()`.
PastMcpClose == {i \in Runs : shutdown[i] = "closing"}

GetStarts(r) == get[r].pc = "new" /\ get'[r].pc # "new"

\* C21: the GET endpoint does not look at the shutdown state. A GET handled
\* while a run of gracefulShutdown is under way, with a protocol server, is
\* treated as at any other time: it is not refused with 503, a transport is
\* made, and if that has a session id it is registered with its hook and
\* connected, with no close() from the drain that has already run.
C21_GetDuringShutdownRegisters ==
    [][\A r \in Conns :
          (GetStarts(r) /\ mcpServer /\ ~NoShutdownYet)
              => /\ get'[r].transport
                 /\ get'[r].status # 503
                 /\ shutdown' = shutdown
                 /\ transportClose' = transportClose
                 /\ get'[r].sessionId # NoSessionId =>
                       /\ MapGet(activeSseTransports', get'[r].sessionId) = r
                       /\ get'[r].hook
                       /\ get'[r].connects = 1
                       /\ transportClose'[r].shutdown.calls = 0]_vars

\* The process is shutting down, the drain has closed one handle and cleared
\* the registry, and the registry holds a later handle the drain never closed.
C21_Witness ==
    \E h, o \in Conns :
        /\ ProcessState = "ShuttingDown"
        /\ transportClose[o].shutdown.calls = 1
        /\ o \notin MapValues(activeSseTransports)
        /\ MapGet(activeSseTransports, get[h].sessionId) = h
        /\ get[h].sessionId # NoSessionId
        /\ transportClose[h].shutdown.calls = 0

\* ---------------------------------------------------------------- C22

\* C22: however many signals arrive, a transport handle gets at most one
\* close() from its own disconnect hook and at most one from a drain, two in
\* all: a drain that closes a handle takes it out of the registry in the same
\* step, and a handle that was closed is never registered again.
C22_AtMostTwoCloses ==
    /\ [](\A h \in Conns :
            /\ transportClose[h].hook.calls <= 1
            /\ transportClose[h].shutdown.calls <= 1
            /\ CloseCalls(h) <= 2)
    /\ [][\A h \in Conns :
            /\ transportClose'[h].shutdown.calls > transportClose[h].shutdown.calls
                  => /\ h \in MapValues(activeSseTransports)
                     /\ h \notin MapValues(activeSseTransports')
            /\ (h \in MapValues(activeSseTransports')
                  /\ h \notin MapValues(activeSseTransports))
                  => CloseCalls(h) = 0 /\ get[h].pc = "new"]_vars

\* Two signals have each started a run; one handle was closed by a drain and
\* by its hook, the other by a drain only.
C22_Witness ==
    \E h, o \in Conns :
        /\ \A i \in Runs : shutdown[i] # "idle"
        /\ transportClose[h].hook.calls = 1
        /\ transportClose[h].shutdown.calls = 1
        /\ transportClose[o].hook.calls = 0
        /\ transportClose[o].shutdown.calls = 1
        /\ activeSseTransports = EmptyMap

====
